---- MODULE Spec2Model ----
(***************************************************************************)
(* Model of autoop.core.ml.artifact.Artifact and                           *)
(* autoop.core.ml.feature.Feature.                                         *)
(*                                                                         *)
(* Python values are records [t |-> <type name>, v |-> <contents>]:        *)
(* a str is the sequence of its code points, a bytes object the sequence   *)
(* of its bytes, an int a one-element sequence, None the empty sequence.   *)
(***************************************************************************)
EXTENDS Integers, Sequences, FiniteSets, TLC

(***************************************************************************)
(* State.                                                                  *)
(*   artifact   the Artifact under test, NoObject until one is constructed *)
(*   feature    the Feature under test, NoObject until one is constructed  *)
(*   last       the most recent call: operation, argument, outcome         *)
(*   init_data  the keyword arguments of the most recent constructor call  *)
(*   saved      the argument of the most recent save, Missing if none      *)
(*   assigned   the most recent accepted version assignment, Missing if    *)
(*              none                                                       *)
(***************************************************************************)
VARIABLES artifact, feature, last, init_data, saved, assigned

vars == <<artifact, feature, last, init_data, saved, assigned>>

(***************************************************************************)
(* Bounds of the model.                                                    *)
(***************************************************************************)
MaxPathLen == 2
MaxNameLen == 3

(***************************************************************************)
(* Python values.                                                          *)
(***************************************************************************)
PyStr(s) == [t |-> "str", v |-> s]
PyBytes(b) == [t |-> "bytes", v |-> b]
PyInt(n) == [t |-> "int", v |-> <<n>>]
None == [t |-> "NoneType", v |-> <<>>]
\* a keyword argument the caller did not pass
Missing == [t |-> "missing", v |-> <<>>]
\* a name that is bound to no object
NoObject == [t |-> "NoObject"]

isinstance_str(x) == x.t = "str"

\* Python truthiness of a str / bytes / int / None value
Truthy(x) ==
    CASE x.t = "str" -> Len(x.v) > 0
      [] x.t = "bytes" -> Len(x.v) > 0
      [] x.t = "int" -> x.v[1] # 0
      [] OTHER -> FALSE

\* the strings over alphabet of length at most n
RECURSIVE StringsUpTo(_, _)
StringsUpTo(alphabet, n) ==
    IF n = 0 THEN {<<>>}
    ELSE LET shorter == StringsUpTo(alphabet, n - 1)
         IN shorter \cup {Append(s, c) : s \in shorter, c \in alphabet}

\* dict(**kwargs): the keyword arguments actually passed
Kwargs(full) == [k \in {n \in DOMAIN full : full[n] # Missing} |-> full[k]]

\* dict.get(key, default)
Get(d, key, default) == IF key \in DOMAIN d THEN d[key] ELSE default

(***************************************************************************)
(* str.encode(): UTF-8.                                                    *)
(***************************************************************************)
Utf8(cp) ==
    IF cp < 128 THEN <<cp>>
    ELSE IF cp < 2048 THEN <<192 + (cp \div 64), 128 + (cp % 64)>>
    ELSE <<224 + (cp \div 4096), 128 + ((cp \div 64) % 64), 128 + (cp % 64)>>

RECURSIVE encode(_)
encode(s) == IF s = <<>> THEN <<>> ELSE Utf8(Head(s)) \o encode(Tail(s))

\* bytes.decode() of ASCII bytes
decode(b) == b

(***************************************************************************)
(* base64.urlsafe_b64encode: standard base64, then '+' -> '-', '/' -> '_'. *)
(***************************************************************************)
B64Char(i) ==
    IF i < 26 THEN 65 + i
    ELSE IF i < 52 THEN 97 + (i - 26)
    ELSE IF i < 62 THEN 48 + (i - 52)
    ELSE IF i = 62 THEN 43
    ELSE 47

Pad == 61

RECURSIVE b64encode(_)
b64encode(b) ==
    IF Len(b) = 0 THEN <<>>
    ELSE IF Len(b) = 1 THEN
        <<B64Char(b[1] \div 4), B64Char((b[1] % 4) * 16), Pad, Pad>>
    ELSE IF Len(b) = 2 THEN
        <<B64Char(b[1] \div 4),
          B64Char((b[1] % 4) * 16 + (b[2] \div 16)),
          B64Char((b[2] % 16) * 4),
          Pad>>
    ELSE
        <<B64Char(b[1] \div 4),
          B64Char((b[1] % 4) * 16 + (b[2] \div 16)),
          B64Char((b[2] % 16) * 4 + (b[3] \div 64)),
          B64Char(b[3] % 64)>> \o b64encode(SubSeq(b, 4, Len(b)))

UrlsafeTranslate(c) == IF c = 43 THEN 45 ELSE IF c = 47 THEN 95 ELSE c

urlsafe_b64encode(b) ==
    LET std == b64encode(b) IN [i \in 1..Len(std) |-> UrlsafeTranslate(std[i])]

(***************************************************************************)
(* Formatting of a value inside an f-string: format(x, "").                *)
(***************************************************************************)
RECURSIVE Digits(_)
Digits(n) == IF n < 10 THEN <<48 + n>> ELSE Append(Digits(n \div 10), 48 + (n % 10))

Format(x) ==
    CASE x.t = "str" -> x.v
      [] x.t = "int" -> Digits(x.v[1])
      [] x.t = "NoneType" -> <<78, 111, 110, 101>>

(***************************************************************************)
(* Outcome of a call: a returned value or a raised exception.              *)
(***************************************************************************)
Return(x) == [outcome |-> "return", ret |-> x]
Raise(e) == [outcome |-> e, ret |-> None]

(***************************************************************************)
(* class Artifact(BaseModel)                                               *)
(***************************************************************************)
Colon == 58
DefaultVersion == PyStr(<<49, 46, 48, 46, 48>>)
EmptyDict == [t |-> "dict", v |-> <<>>]
EmptyList == [t |-> "list", v |-> <<>>]

\* a variant that puts Feature's min_length=1 on Artifact.name
ArtifactFieldsValid_min_length(data) ==
    /\ "name" \in DOMAIN data
    /\ isinstance_str(data["name"])
    /\ Len(data["name"].v) >= 1
    /\ "type" \in DOMAIN data
    /\ isinstance_str(data["type"])

\* BaseModel.__init__ on the declared fields: name and type are required
\* and must be str; metadata and tags are optional; every other keyword
\* (asset_path, data, version) is an extra and is ignored.
ArtifactFieldsValid(data) ==
    /\ "name" \in DOMAIN data
    /\ isinstance_str(data["name"])
    /\ "type" \in DOMAIN data
    /\ isinstance_str(data["type"])

\* a variant that never copies the version keyword: _version keeps the
\* class default
Artifact__init__default_version(data) ==
    IF ~ArtifactFieldsValid(data) THEN [self |-> NoObject, outcome |-> "ValidationError"]
    ELSE [self |-> [t |-> "Artifact",
                    name |-> data["name"],
                    type |-> data["type"],
                    metadata |-> Get(data, "metadata", EmptyDict),
                    tags |-> Get(data, "tags", EmptyList),
                    _asset_path |-> Get(data, "asset_path", None),
                    _data |-> Get(data, "data", None),
                    _version |-> DefaultVersion],
          outcome |-> "return"]

\* Artifact.__init__(**data)
Artifact__init__(data) ==
    IF ~ArtifactFieldsValid(data) THEN [self |-> NoObject, outcome |-> "ValidationError"]
    ELSE [self |-> [t |-> "Artifact",
                    name |-> data["name"],
                    type |-> data["type"],
                    metadata |-> Get(data, "metadata", EmptyDict),
                    tags |-> Get(data, "tags", EmptyList),
                    _asset_path |-> Get(data, "asset_path", None),
                    _data |-> Get(data, "data", None),
                    _version |-> Get(data, "version", DefaultVersion)],
          outcome |-> "return"]

\* property asset_path
asset_path(self) == self._asset_path

\* property version
version(self) == self._version

\* a variant without the isinstance check
version_setter_no_type_check(self, new_version) ==
    IF ~Truthy(new_version)
    THEN [self |-> self, outcome |-> "ValueError"]
    ELSE [self |-> [self EXCEPT !._version = new_version], outcome |-> "return"]

\* a variant that validates but does not store the new version
version_setter_discard(self, new_version) ==
    IF ~isinstance_str(new_version) \/ ~Truthy(new_version)
    THEN [self |-> self, outcome |-> "ValueError"]
    ELSE [self |-> self, outcome |-> "return"]

\* a variant that stores the new version before validating it
version_setter_assign_first(self, new_version) ==
    IF ~isinstance_str(new_version) \/ ~Truthy(new_version)
    THEN [self |-> [self EXCEPT !._version = new_version], outcome |-> "ValueError"]
    ELSE [self |-> [self EXCEPT !._version = new_version], outcome |-> "return"]

\* version.setter
version_setter(self, new_version) ==
    IF ~isinstance_str(new_version) \/ ~Truthy(new_version)
    THEN [self |-> self, outcome |-> "ValueError"]
    ELSE [self |-> [self EXCEPT !._version = new_version], outcome |-> "return"]

\* a variant that builds the id from the version given at construction
id_construction_version(self) ==
    IF ~isinstance_str(self._asset_path) THEN Raise("AttributeError")
    ELSE LET encoded_path == decode(urlsafe_b64encode(encode(self._asset_path.v)))
         IN Return(PyStr(encoded_path \o <<Colon>>
                         \o Format(Get(init_data, "version", DefaultVersion))))

\* property id
id(self) ==
    IF ~isinstance_str(self._asset_path) THEN Raise("AttributeError")
    ELSE LET encoded_path == decode(urlsafe_b64encode(encode(self._asset_path.v)))
         IN Return(PyStr(encoded_path \o <<Colon>> \o Format(self._version)))

\* Artifact.read
read(self) == self._data

\* a variant that appends to a bytes payload instead of replacing it
save_append(self, data) ==
    IF self._data.t = "bytes" /\ data.t = "bytes"
    THEN [self EXCEPT !._data = PyBytes(self._data.v \o data.v)]
    ELSE [self EXCEPT !._data = data]

\* a variant that also moves the version on
save_bump_version(self, data) ==
    [self EXCEPT !._data = data, !._version = PyStr(<<50, 46, 48, 46, 48>>)]

\* Artifact.save
save(self, data) == [self EXCEPT !._data = data]

(***************************************************************************)
(* class Feature(BaseModel)                                                *)
(***************************************************************************)
Categorical == <<99, 97, 116, 101, 103, 111, 114, 105, 99, 97, 108>>
Numerical == <<110, 117, 109, 101, 114, 105, 99, 97, 108>>
FeatureTypes == {PyStr(Categorical), PyStr(Numerical)}

\* a variant without min_length=1 on name
FeatureFieldsValid_no_min_length(data) ==
    /\ "name" \in DOMAIN data
    /\ isinstance_str(data["name"])
    /\ "type" \in DOMAIN data
    /\ data["type"] \in FeatureTypes

\* name: str = Field(..., min_length=1); type: Literal[...]
FeatureFieldsValid(data) ==
    /\ "name" \in DOMAIN data
    /\ isinstance_str(data["name"])
    /\ Len(data["name"].v) >= 1
    /\ "type" \in DOMAIN data
    /\ data["type"] \in FeatureTypes

\* Feature(**data)
Feature__init__(data) ==
    IF ~FeatureFieldsValid(data) THEN [self |-> NoObject, outcome |-> "ValidationError"]
    ELSE [self |-> [t |-> "Feature", name |-> data["name"], type |-> data["type"]],
          outcome |-> "return"]

\* "Feature(name='" , "', type='" , "')"
FeatureStrHead == <<70, 101, 97, 116, 117, 114, 101, 40, 110, 97, 109, 101, 61, 39>>
FeatureStrMid == <<39, 44, 32, 116, 121, 112, 101, 61, 39>>
FeatureStrTail == <<39, 41>>

\* Feature.__str__
Feature__str__(self) ==
    PyStr(FeatureStrHead \o Format(self.name) \o FeatureStrMid
          \o Format(self.type) \o FeatureStrTail)

Call(op, arg, result) ==
    [op |-> op, arg |-> arg, outcome |-> result.outcome, ret |-> result.ret]

(***************************************************************************)
(* Inputs.                                                                 *)
(***************************************************************************)
\* '?', e-acute, euro sign: one-, two- and three-byte UTF-8 sequences
PathAlphabet == {63, 233, 8364}
\* "path/to/asset"
TestAssetPath == <<112, 97, 116, 104, 47, 116, 111, 47, 97, 115, 115, 101, 116>>
AssetPathArgs ==
    {Missing} \cup {PyStr(s) : s \in StringsUpTo(PathAlphabet, MaxPathLen) \cup {TestAssetPath}}

NewVersion == PyStr(<<50, 46, 48, 46, 48>>)
VersionValues == {PyStr(<<>>), DefaultVersion, NewVersion, PyInt(123), None}
VersionArgs == {Missing, PyStr(<<>>), NewVersion, PyInt(123)}

DataArgs == {Missing, PyBytes(<<120>>)}
SaveArgs == {PyBytes(<<>>), PyBytes(<<121, 122>>), None}

ArtifactNameArgs == {Missing, PyStr(<<>>), PyStr(<<97>>)}
ArtifactTypeArgs == {Missing, PyStr(<<116>>)}

\* 'a', 'g', 'e'
NameAlphabet == {97, 103, 101}
FeatureNameArgs == {Missing} \cup {PyStr(s) : s \in StringsUpTo(NameAlphabet, MaxNameLen)}
\* "invalid_type"
InvalidType == <<105, 110, 118, 97, 108, 105, 100, 95, 116, 121, 112, 101>>
FeatureTypeArgs == {Missing, PyStr(<<>>), PyStr(InvalidType)} \cup FeatureTypes

(***************************************************************************)
(* Initial state: nothing constructed, nothing called.                     *)
(***************************************************************************)
Init ==
    /\ artifact = NoObject
    /\ feature = NoObject
    /\ last = Call("none", None, Return(None))
    /\ init_data = <<>>
    /\ saved = Missing
    /\ assigned = Missing

(***************************************************************************)
(* Calls on Artifact.                                                      *)
(***************************************************************************)
\* artifact = Artifact(name=..., asset_path=..., data=..., type=..., version=...)
CallArtifact ==
    /\ artifact = NoObject
    /\ \E n \in ArtifactNameArgs, ty \in ArtifactTypeArgs, p \in AssetPathArgs,
          d \in DataArgs, v \in VersionArgs :
         LET data == Kwargs([name |-> n, type |-> ty, asset_path |-> p,
                             data |-> d, version |-> v])
             r == Artifact__init__(data)
         IN /\ artifact' = r.self
            /\ init_data' = data
            /\ last' = Call("__init__", None, [outcome |-> r.outcome, ret |-> None])
    /\ UNCHANGED <<feature, saved, assigned>>

\* artifact.version = new_version
CallSetVersion ==
    /\ artifact # NoObject
    /\ \E new_version \in VersionValues :
         LET r == version_setter(artifact, new_version)
         IN /\ artifact' = r.self
            /\ last' = Call("version.setter", new_version,
                            [outcome |-> r.outcome, ret |-> None])
            /\ assigned' = IF r.outcome = "return" THEN new_version ELSE assigned
    /\ UNCHANGED <<feature, init_data, saved>>

\* artifact.version
CallGetVersion ==
    /\ artifact # NoObject
    /\ last' = Call("version", None, Return(version(artifact)))
    /\ UNCHANGED <<artifact, feature, init_data, saved, assigned>>

\* artifact.asset_path
CallGetAssetPath ==
    /\ artifact # NoObject
    /\ last' = Call("asset_path", None, Return(asset_path(artifact)))
    /\ UNCHANGED <<artifact, feature, init_data, saved, assigned>>

\* artifact.id
CallGetId ==
    /\ artifact # NoObject
    /\ last' = Call("id", None, id(artifact))
    /\ UNCHANGED <<artifact, feature, init_data, saved, assigned>>

\* artifact.read()
CallRead ==
    /\ artifact # NoObject
    /\ last' = Call("read", None, Return(read(artifact)))
    /\ UNCHANGED <<artifact, feature, init_data, saved, assigned>>

\* artifact.save(data)
CallSave ==
    /\ artifact # NoObject
    /\ \E data \in SaveArgs :
         /\ artifact' = save(artifact, data)
         /\ saved' = data
         /\ last' = Call("save", data, Return(None))
    /\ UNCHANGED <<feature, init_data, assigned>>

Next ==
    \/ CallArtifact
    \/ CallSetVersion
    \/ CallGetVersion
    \/ CallGetAssetPath
    \/ CallGetId
    \/ CallRead
    \/ CallSave

Spec == Init /\ [][Next]_vars

(***************************************************************************)
(* Calls on Feature.                                                       *)
(***************************************************************************)
\* feature = Feature(name=..., type=...)
CallFeature ==
    /\ feature = NoObject
    /\ \E n \in FeatureNameArgs, ty \in FeatureTypeArgs :
         LET data == Kwargs([name |-> n, type |-> ty])
             r == Feature__init__(data)
         IN /\ feature' = r.self
            /\ init_data' = data
            /\ last' = Call("__init__", None, [outcome |-> r.outcome, ret |-> None])
    /\ UNCHANGED <<artifact, saved, assigned>>

\* str(feature)
CallFeatureStr ==
    /\ feature # NoObject
    /\ last' = Call("__str__", None, Return(Feature__str__(feature)))
    /\ UNCHANGED <<artifact, feature, init_data, saved, assigned>>

FeatureNext ==
    \/ CallFeature
    \/ CallFeatureStr

FeatureSpec == Init /\ [][FeatureNext]_vars

(***************************************************************************)
(* Properties of Artifact, checked under Spec.                             *)
(***************************************************************************)
Live == artifact # NoObject

\* the asset_path keyword was passed to the constructor, and is a str
AssetPathGiven ==
    /\ "asset_path" \in DOMAIN init_data
    /\ isinstance_str(init_data["asset_path"])

EndsWith(s, suffix) ==
    /\ Len(s) >= Len(suffix)
    /\ SubSeq(s, Len(s) - Len(suffix) + 1, Len(s)) = suffix

\* urlsafe_base64(asset_path given at construction) + ":" + v
ExpectedId(v) ==
    PyStr(urlsafe_b64encode(encode(init_data["asset_path"].v)) \o <<Colon>> \o Format(v))

\* "cGF0aC90by9hc3NldA==", the encoding of "path/to/asset"
TestAssetPathB64 ==
    <<99, 71, 70, 48, 97, 67, 57, 48, 98, 121, 57, 104, 99, 51, 78, 108, 100, 65, 61, 61>>
\* "w6k_", the encoding of e-acute followed by '?'
UnderscoreB64 == <<119, 54, 107, 95>>
\* "P-KCrA==", the encoding of '?' followed by the euro sign
MinusB64 == <<80, 45, 75, 67, 114, 65, 61, 61>>

\* the version most recently put into the artifact by its callers
CurrentVersion ==
    IF assigned # Missing THEN assigned ELSE Get(init_data, "version", DefaultVersion)

\* C1: whenever an Artifact exists that was constructed with an asset_path,
\* its id is urlsafe_base64(that asset_path) + ":" + the current version,
\* whatever assignments (accepted or rejected) and saves came before, and an
\* id access returns exactly that value, never one built from an earlier
\* version; the known encodings of three test paths are what urlsafe_base64
\* stands for.
C1_IdReflectsCurrentVersion ==
    (Live /\ AssetPathGiven) =>
        /\ id(artifact) = Return(ExpectedId(version(artifact)))
        /\ id(artifact) = Return(ExpectedId(CurrentVersion))
        /\ last.op = "id" => (last.outcome = "return" /\ last.ret = ExpectedId(CurrentVersion))
        /\ init_data["asset_path"].v = TestAssetPath =>
             id(artifact).ret.v = TestAssetPathB64 \o <<Colon>> \o Format(CurrentVersion)
        /\ init_data["asset_path"].v = <<233, 63>> =>
             id(artifact).ret.v = UnderscoreB64 \o <<Colon>> \o Format(CurrentVersion)
        /\ init_data["asset_path"].v = <<63, 8364>> =>
             id(artifact).ret.v = MinusB64 \o <<Colon>> \o Format(CurrentVersion)

C1_Witness ==
    /\ Live
    /\ AssetPathGiven
    /\ init_data["asset_path"].v = TestAssetPath
    /\ "version" \in DOMAIN init_data
    /\ assigned = NewVersion
    /\ saved # Missing
    /\ last.op = "id"
    /\ last.ret.v = TestAssetPathB64 \o <<Colon, 50, 46, 48, 46, 48>>

\* the payload most recently handed to the artifact by its callers
CurrentPayload == IF saved # Missing THEN saved ELSE Get(init_data, "data", None)

\* C2: right after save(d) a read() returns d, whatever the artifact held
\* before; and at any time read() returns the payload of the most recent
\* save, or the construction payload if save was never called.
C2_SaveReadRoundTrip ==
    Live =>
        /\ last.op = "save" => read(artifact) = last.arg
        /\ read(artifact) = CurrentPayload
        /\ last.op = "read" => (last.outcome = "return" /\ last.ret = CurrentPayload)

C2_Witness ==
    /\ Live
    /\ "data" \in DOMAIN init_data
    /\ saved = PyBytes(<<121, 122>>)
    /\ assigned # Missing
    /\ last.op = "read"
    /\ last.ret = PyBytes(<<121, 122>>)

InvalidVersionValue(x) == ~isinstance_str(x) \/ x.v = <<>>

\* C3: an assignment to version of the empty string or of a value that is
\* not a string raises ValueError, in every state of the artifact.
C3_InvalidVersionRejected ==
    (last.op = "version.setter" /\ InvalidVersionValue(last.arg)) =>
        last.outcome = "ValueError"

C3_Witness ==
    /\ last.op = "version.setter"
    /\ last.arg = PyInt(123)
    /\ last.outcome = "ValueError"
    /\ assigned # Missing
    /\ saved # Missing

\* C4: an assignment to version of a non-empty string v succeeds; right
\* afterwards the version getter returns v, asset_path is what it was
\* before, and (for an artifact that has an asset_path) id ends in ":" + v.
C4_ValidVersionAccepted ==
    [][(last'.op = "version.setter" /\ ~InvalidVersionValue(last'.arg)) =>
          /\ last'.outcome = "return"
          /\ version(artifact') = last'.arg
          /\ asset_path(artifact') = asset_path(artifact)
          /\ isinstance_str(asset_path(artifact)) =>
               /\ id(artifact').outcome = "return"
               /\ EndsWith(id(artifact').ret.v, <<Colon>> \o last'.arg.v)]_vars

C4_Witness ==
    /\ Live
    /\ AssetPathGiven
    /\ last.op = "version.setter"
    /\ last.arg = NewVersion
    /\ last.outcome = "return"
    /\ version(artifact) = NewVersion
    /\ Get(init_data, "version", DefaultVersion) # NewVersion

\* C6: an Artifact constructed without a version argument has version
\* "1.0.0" and id urlsafe_base64(asset_path) + ":1.0.0" until the first
\* accepted version assignment; one constructed with a version argument v
\* has version v until then.
C6_DefaultVersion ==
    (Live /\ assigned = Missing) =>
        /\ "version" \notin DOMAIN init_data =>
             /\ version(artifact) = PyStr(<<49, 46, 48, 46, 48>>)
             /\ AssetPathGiven =>
                  id(artifact) = Return(PyStr(
                      urlsafe_b64encode(encode(init_data["asset_path"].v))
                      \o <<Colon, 49, 46, 48, 46, 48>>))
        /\ "version" \in DOMAIN init_data =>
             version(artifact) = init_data["version"]

C6_Witness ==
    /\ Live
    /\ assigned = Missing
    /\ "version" \notin DOMAIN init_data
    /\ AssetPathGiven
    /\ saved # Missing
    /\ last.op = "version.setter"
    /\ last.outcome = "ValueError"
    /\ id(artifact).ret.v = TestAssetPathB64 \o <<Colon, 49, 46, 48, 46, 48>>

\* C7 as stated: an Artifact constructor call whose name is the empty string
\* raises ValidationError and no Artifact comes into existence.
C7_EmptyNameRejected ==
    ("name" \in DOMAIN init_data /\ init_data["name"] = PyStr(<<>>)) =>
        /\ ~Live
        /\ last.op = "__init__" => last.outcome = "ValidationError"

\* C7 amended: an Artifact constructor call without a name raises
\* ValidationError and no Artifact comes into existence; a call whose name is
\* the empty string (and that passes a type) succeeds and yields an Artifact
\* named "".
C7_MissingNameRejected ==
    /\ "name" \notin DOMAIN init_data =>
         /\ ~Live
         /\ last.op = "__init__" => last.outcome = "ValidationError"
    /\ ({"name", "type"} \subseteq DOMAIN init_data /\ init_data["name"] = PyStr(<<>>)) =>
         /\ Live
         /\ artifact.name = PyStr(<<>>)
         /\ last.op = "__init__" => last.outcome = "return"

C7_Witness ==
    /\ last.op = "__init__"
    /\ last.outcome = "return"
    /\ Live
    /\ init_data["name"] = PyStr(<<>>)
    /\ artifact.name = PyStr(<<>>)

\* C8: the version of every Artifact is a non-empty string in every
\* reachable state, whatever version argument the constructor was given and
\* whatever assignments followed.
C8_VersionNonEmptyString ==
    Live => (isinstance_str(version(artifact)) /\ Len(version(artifact).v) >= 1)

\* C9: save(data) succeeds for every data and changes nothing but the
\* payload: version, asset_path, id and the declared fields are the same
\* after the call as before it.
C9_SaveChangesOnlyPayload ==
    [][last'.op = "save" =>
          /\ last'.outcome = "return"
          /\ version(artifact') = version(artifact)
          /\ asset_path(artifact') = asset_path(artifact)
          /\ id(artifact') = id(artifact)
          /\ artifact' = [artifact EXCEPT !._data = last'.arg]]_vars

C9_Witness ==
    /\ Live
    /\ last.op = "save"
    /\ last.arg = None
    /\ Get(init_data, "data", None) # None
    /\ assigned = NewVersion
    /\ version(artifact) = NewVersion
    /\ AssetPathGiven

\* C10: a version assignment that raises ValueError leaves the Artifact as
\* it was: version, id, asset_path and the payload read() returns are
\* unchanged, and so is what later calls will see.
C10_RejectedAssignmentNoEffect ==
    [][(last'.op = "version.setter" /\ last'.outcome = "ValueError") =>
          /\ version(artifact') = version(artifact)
          /\ id(artifact') = id(artifact)
          /\ asset_path(artifact') = asset_path(artifact)
          /\ read(artifact') = read(artifact)
          /\ artifact' = artifact
          /\ assigned' = assigned]_vars

C10_Witness ==
    /\ Live
    /\ last.op = "version.setter"
    /\ last.arg = PyStr(<<>>)
    /\ last.outcome = "ValueError"
    /\ assigned = NewVersion
    /\ version(artifact) = NewVersion
    /\ saved # Missing

(***************************************************************************)
(* Properties of Feature, checked under FeatureSpec.                       *)
(***************************************************************************)
\* C5: a Feature constructor call given a name and a type (both strings)
\* raises ValidationError exactly when the name is empty or the type is
\* neither "categorical" nor "numerical"; otherwise it yields a Feature whose
\* name and type are the values given.
C5_FeatureValidation ==
    (/\ last.op \in {"__init__", "__str__"}
     /\ {"name", "type"} \subseteq DOMAIN init_data
     /\ isinstance_str(init_data["name"])
     /\ isinstance_str(init_data["type"])) =>
        LET rejected ==
                \/ init_data["name"].v = <<>>
                \/ init_data["type"].v \notin
                     {<<99, 97, 116, 101, 103, 111, 114, 105, 99, 97, 108>>,
                      <<110, 117, 109, 101, 114, 105, 99, 97, 108>>}
        IN /\ rejected <=> feature = NoObject
           /\ rejected <=> (last.op = "__init__" /\ last.outcome = "ValidationError")
           /\ ~rejected => (feature.name = init_data["name"]
                            /\ feature.type = init_data["type"])

\* Feature(name="age", type="numerical")
C5_Witness ==
    /\ last.op = "__init__"
    /\ last.outcome = "return"
    /\ feature # NoObject
    /\ feature.name = PyStr(<<97, 103, 101>>)
    /\ feature.type = PyStr(<<110, 117, 109, 101, 114, 105, 99, 97, 108>>)

====
